---- MODULE Spec2Model ----
(***************************************************************************)
(* Player development (develop) and potential estimation (bootstrapPot)    *)
(* of src/deion/worker/core/league/updateMetaNameRegion.ts, lines 16-312.  *)
(*                                                                         *)
(* The sport strategy (developSeason, ovr, pos, genWeight, POSITIONS), the *)
(* skill tagger, helpers.bound, helpers.deepCopy and random.randInt are    *)
(* imported by the file and are modelled from their contracts: a ratings   *)
(* snapshot's attribute vector is represented by the overall it yields at  *)
(* each position (attrs), developSeason replaces it by any other vector,   *)
(* genWeight returns any candidate weight.                                 *)
(*                                                                         *)
(* Real numbers of the regression are kept in fixed point: every           *)
(* coefficient has five decimals, so value * Scale is an integer.          *)
(***************************************************************************)
EXTENDS Integers, Sequences, FiniteSets, Bags, TLC

VARIABLES
    copiedRatings, \* the copy a trial of a directly called bootstrapPot works on
    SPORT,      \* process.env.SPORT
    POSITIONS,  \* overrides.common.constants.POSITIONS
    caller,     \* "league": develop is called; "tool": bootstrapPot is called directly
    p,          \* the player object handed to develop
    pc,         \* position of the running call
    call,       \* arguments and locals of the develop call
    boot,       \* arguments and locals of a directly called bootstrapPot
    ret,        \* what the directly called bootstrapPot returned
    err,        \* message of the Error thrown to the caller, "none" otherwise
    obs         \* observation of the calls made: strategy calls, draws, entry state

vars == <<copiedRatings, SPORT, POSITIONS, caller, p, pc, call, boot, ret, err, obs>>

----------------------------------------------------------------------------
(* Helpers of the language *)

Range(s) == {s[k] : k \in DOMAIN s}
Last(s) == s[Len(s)]
EmptyMap == [x \in {} |-> 0]
MaxOf(S) == CHOOSE x \in S : \A y \in S : y <= x
MinOf(S) == CHOOSE x \in S : \A y \in S : x <= y

(* Bounds of the model *)

\* overall values the strategy returns are the multiples of 100/NumOvr
NumOvr == 1
\* the youngest player is MaxYoung years below the age limit
MaxYoung == 1
\* develop is called with years in 0..MaxYears
MaxYears == 2
\* the youngest age a calibration run asks the regression about
MinAge == 19
\* season of the current snapshot
StartSeason == 2020
\* weight of the player before the call
StartWeight == 200

(* Program constants *)

NUM_SIMULATIONS == 20
\* coefficients are written with five decimals
Scale == 100000

NoPos == "undefined"
NoOverride == "undefined"
PLAYER == [UNDRAFTED |-> -2]
bannedPositions == {"KR", "PR"}

OvrValues == {(100 * i) \div NumOvr : i \in 0..NumOvr}
CoachingRanks == {7}
StartAges == (29 - MaxYoung)..29
\* candidate weights genWeight can return: far below and far above StartWeight
WeightValues == {StartWeight - 15, StartWeight + 15}

\* the positions of the football build, in the order of its POSITIONS constant
FootballPositions ==
    <<"QB", "RB", "WR", "TE", "OL", "DL", "LB", "CB", "S", "K", "P", "KR", "PR">>

\* the ages and positions a calibration run hands to bootstrapPot
ToolAges(sport) == IF sport = "football" THEN MinAge..30 ELSE (28 - MaxYoung)..30
ToolPositions(sport, positions) ==
    IF sport = "football" THEN Range(positions) \cup {NoPos, "XX"} ELSE {NoPos}

PositionLists ==
    { <<"KR", "QB", "RB">>,   \* a banned position first, two eligible ones
      <<"KR", "PR">>,         \* no eligible position
      <<"QB", "XX">> }        \* a position the coefficient table does not know

----------------------------------------------------------------------------
(* The imported utilities and the sport strategy *)

\* helpers.bound
bound(x, min, max) == IF x < min THEN min ELSE IF x > max THEN max ELSE x

\* Math.round of the fixed-point value x: the nearest integer, halves up
MathRound(x) == (x + Scale \div 2) \div Scale

\* helpers.deepCopy: a value of its own
deepCopy(ratings) == ratings

\* random.randInt(a, b): the values a draw can return
randInt(a, b) == a..b

\* overrides.core.player.ovr(ratings, pos)
Ovr(ratings, pos) == ratings.attrs[pos]

\* overrides.core.player.developSeason(ratings, age, coachingRank): the snapshots
\* it can leave behind (only the attributes change)
developSeason(ratings) ==
    {[ratings EXCEPT !.attrs = a] : a \in [DOMAIN ratings.attrs -> OvrValues]}

\* overrides.core.player.genWeight(hgt, stre)
genWeight == WeightValues

\* overrides.core.player.pos(ratings), basketball
PosOf(ratings) == IF Ovr(ratings, NoPos) >= 50 THEN "F" ELSE "G"

\* skills(ratings): the tags of the attributes that reach the threshold
skills(ratings) == {k \in DOMAIN ratings.attrs : ratings.attrs[k] >= 50}

----------------------------------------------------------------------------
(* potEstimator and its coefficient table, football only *)

coeffsByPos ==
    [ CB |-> [intercept |-> 4122339, age |-> -155671, ovr |-> 173043, interaction |-> -2711],
      DL |-> [intercept |-> 5039196, age |-> -191082, ovr |-> 200579, interaction |-> -3759],
      K  |-> [intercept |-> 3599700, age |-> -134900, ovr |-> 183400, interaction |-> -3200],
      KR |-> [intercept |-> 3962046, age |-> -147839, ovr |-> 167194, interaction |-> -2539],
      LB |-> [intercept |-> 3672401, age |-> -137224, ovr |-> 191346, interaction |-> -3444],
      OL |-> [intercept |-> 3822024, age |-> -144549, ovr |-> 213113, interaction |-> -4226],
      P  |-> [intercept |-> 3609308, age |-> -135110, ovr |-> 190802, interaction |-> -3557],
      PR |-> [intercept |-> 3816013, age |-> -142061, ovr |-> 193835, interaction |-> -3559],
      QB |-> [intercept |-> 4734247, age |-> -178499, ovr |-> 212059, interaction |-> -4236],
      RB |-> [intercept |-> 1870945, age |-> -69679,  ovr |-> 240819, interaction |-> -5307],
      S  |-> [intercept |-> 4284427, age |-> -162036, ovr |-> 199803, interaction |-> -3686],
      TE |-> [intercept |-> 2815031, age |-> -105288, ovr |-> 227735, interaction |-> -4792],
      WR |-> [intercept |-> 4683016, age |-> -175311, ovr |-> 176216, interaction |-> -2886] ]

\* let potEstimator: defined only in the football build
HasPotEstimator == SPORT = "football"

\* potEstimator throws `Invalid position "${pos}" in potEstimator`
potEstimatorThrows(pos) == pos \notin DOMAIN coeffsByPos

\* potEstimator(ovr, age, pos), times Scale
potEstimator(ovr, age, pos) ==
    LET coeffs == coeffsByPos[pos]
    IN  coeffs.intercept + coeffs.age * age + coeffs.ovr * ovr
          + coeffs.interaction * age * ovr

----------------------------------------------------------------------------
(* bootstrapPot *)

\* what a call of bootstrapPot does: the value it returns or the Error it throws,
\* and how often it drew from random, called potEstimator and called developSeason
Value(v, d, e, s) ==
    [kind |-> "value", val |-> v, msg |-> "none", draws |-> d, estimates |-> e, rollouts |-> s]
Undefined ==
    [kind |-> "undefined", val |-> 0, msg |-> "none", draws |-> 0, estimates |-> 0, rollouts |-> 0]
Throw(m, e) ==
    [kind |-> "throw", val |-> 0, msg |-> m, draws |-> 0, estimates |-> e, rollouts |-> 0]

\* pos ? ratings.ovrs[pos] : ratings.ovr
currentOvr(ratings, pos) == IF pos # NoPos THEN ratings.ovrs[pos] ELSE ratings.ovr

\* the ages of the rollout loop: for (ageTemp = age + 1; ageTemp < 30; ageTemp++)
rolloutAges(age) == (age + 1)..(30 - 1)

\* regressionPot without the floor of lines 152-154
regressionPot_NoFloor(ovr, age, pos, jitter) ==
    bound(MathRound(potEstimator(ovr, age, pos) + jitter * Scale), 0, 100)

\* regressionPot without helpers.bound on line 156
regressionPot_NoBound(ovr, age, pos, jitter) ==
    LET pot == potEstimator(ovr, age, pos) + jitter * Scale
    IN  IF ovr * Scale > pot THEN ovr ELSE MathRound(pot)

\* lines 148-156: the regression, jitter being the value random.randInt returned
regressionPot(ovr, age, pos, jitter) ==
    LET pot == potEstimator(ovr, age, pos) + jitter * Scale
    IN  IF ovr * Scale > pot THEN ovr ELSE bound(MathRound(pot), 0, 100)

\* orderBy(maxOvrs): the ascending sequence of the elements of a bag
RECURSIVE orderBy(_)
orderBy(maxOvrs) ==
    IF DOMAIN maxOvrs = {} THEN <<>>
    ELSE LET m == MinOf(DOMAIN maxOvrs)
             rest == [x \in DOMAIN maxOvrs \ {m} |-> maxOvrs[x]]
         IN  [k \in 1..maxOvrs[m] |-> m] \o orderBy(rest)

\* the median in place of the 75th percentile
percentileIndex_Median == NUM_SIMULATIONS \div 2 + 1

\* Math.floor(0.75 * NUM_SIMULATIONS), as an index of a 1-based sequence
percentileIndex == (3 * NUM_SIMULATIONS) \div 4 + 1

\* bootstrapPot with age > 29 on line 139
bootstrapPot_LateLimit(ratings, age, pos, jitter, maxOvrs) ==
    IF age > 29
    THEN IF pos # NoPos /\ pos \notin DOMAIN ratings.ovrs
         THEN Undefined
         ELSE Value(currentOvr(ratings, pos), 0, 0, 0)
    ELSE IF HasPotEstimator
    THEN IF pos = NoPos
         THEN Throw("pos is required for potEstimator", 0)
         ELSE IF potEstimatorThrows(pos)
         THEN Throw("Invalid position in potEstimator", 1)
         ELSE Value(regressionPot(ratings.ovrs[pos], age, pos, jitter), 1, 1, 0)
    ELSE Value(orderBy(maxOvrs)[percentileIndex], 0, 0,
               NUM_SIMULATIONS * Cardinality(rolloutAges(age)))

\* bootstrapPot with a potEstimator that answers the overall for a position it
\* does not know
bootstrapPot_UnknownIsOvr(ratings, age, pos, jitter, maxOvrs) ==
    IF age >= 29 \/ (HasPotEstimator /\ pos # NoPos /\ potEstimatorThrows(pos))
    THEN IF pos # NoPos /\ pos \notin DOMAIN ratings.ovrs
         THEN Undefined
         ELSE Value(currentOvr(ratings, pos), 0, 0, 0)
    ELSE IF HasPotEstimator
    THEN IF pos = NoPos
         THEN Throw("pos is required for potEstimator", 0)
         ELSE Value(regressionPot(ratings.ovrs[pos], age, pos, jitter), 1, 1, 0)
    ELSE Value(orderBy(maxOvrs)[percentileIndex], 0, 0,
               NUM_SIMULATIONS * Cardinality(rolloutAges(age)))

\* bootstrapPot(ratings, age, pos). jitter is what random.randInt(-2, 2) returns
\* if it is called, maxOvrs the bag of the trial maxima if the trials are run.
bootstrapPot(ratings, age, pos, jitter, maxOvrs) ==
    IF age >= 29
    THEN IF pos # NoPos /\ pos \notin DOMAIN ratings.ovrs
         THEN Undefined
         ELSE Value(currentOvr(ratings, pos), 0, 0, 0)
    ELSE IF HasPotEstimator
    THEN IF pos = NoPos
         THEN Throw("pos is required for potEstimator", 0)
         ELSE IF potEstimatorThrows(pos)
         THEN Throw("Invalid position in potEstimator", 1)
         ELSE Value(regressionPot(ratings.ovrs[pos], age, pos, jitter), 1, 1, 0)
    ELSE Value(orderBy(maxOvrs)[percentileIndex], 0, 0,
               NUM_SIMULATIONS * Cardinality(rolloutAges(age)))

\* one trial (lines 160-173) from ageTemp on: the maxima it can end with
RECURSIVE rollout(_, _, _, _)
rollout(copied, pos, ageTemp, maxOvr) ==
    IF ~(ageTemp < 30) THEN {maxOvr}
    ELSE UNION { LET currentOvr2 == Ovr(c, pos)
                 IN  rollout(c, pos, ageTemp + 1,
                             IF currentOvr2 > maxOvr THEN currentOvr2 ELSE maxOvr)
                 : c \in developSeason(copied) }

\* the maxima one trial of bootstrapPot(ratings, age, pos) can return
trialMaxima(ratings, age, pos) ==
    rollout(deepCopy(ratings), pos, age + 1, currentOvr(ratings, pos))

\* the bags of n elements of S
RECURSIVE BagsOfSize(_, _)
BagsOfSize(S, n) ==
    IF S = {} THEN (IF n = 0 THEN {EmptyBag} ELSE {})
    ELSE LET m == MinOf(S)
         IN  UNION { { IF c = 0 THEN B ELSE B (+) (m :> c) : B \in BagsOfSize(S \ {m}, n - c) }
                     : c \in 0..n }

\* range(NUM_SIMULATIONS).map(...): the arrays of trial maxima, up to their order
trialBags(ratings, age, pos) == BagsOfSize(trialMaxima(ratings, age, pos), NUM_SIMULATIONS)

----------------------------------------------------------------------------
(* develop *)

\* clampWeight without the lower clamp of lines 232-233
clampWeight_NoLower(oldWeight, newWeight) ==
    IF newWeight - oldWeight > 10 THEN oldWeight + 10 ELSE newWeight

\* lines 230-236: the weight after one season, newWeight being genWeight's answer
clampWeight(oldWeight, newWeight) ==
    IF newWeight - oldWeight > 10 THEN oldWeight + 10
    ELSE IF newWeight - oldWeight < -10 THEN oldWeight - 10
    ELSE newWeight

\* the age incremented in every iteration
nextAge_Always(age, years, newPlayer) == age + 1

\* lines 216-218: the age handed to developSeason in an iteration
nextAge(age, years, newPlayer) == IF newPlayer \/ years > 1 THEN age + 1 ELSE age

\* reduceOvrs without the test of bannedPositions
RECURSIVE reduceOvrs_NoBan(_, _, _)
reduceOvrs_NoBan(ratings, k, acc) ==
    IF k > Len(POSITIONS) THEN acc
    ELSE LET pos2 == POSITIONS[k]
             o == Ovr(ratings, pos2)
             better == ~acc.found \/ o > acc.maxOvr
         IN  reduceOvrs_NoBan(ratings, k + 1,
                 [ ovrs   |-> (pos2 :> o) @@ acc.ovrs,
                   found  |-> acc.found \/ better,
                   pos    |-> IF better THEN pos2 ELSE acc.pos,
                   maxOvr |-> IF better THEN o ELSE acc.maxOvr ])

\* reduceOvrs with >= in place of > on line 262
RECURSIVE reduceOvrs_LastBest(_, _, _)
reduceOvrs_LastBest(ratings, k, acc) ==
    IF k > Len(POSITIONS) THEN acc
    ELSE LET pos2 == POSITIONS[k]
             o == Ovr(ratings, pos2)
             better == pos2 \notin bannedPositions /\ (~acc.found \/ o >= acc.maxOvr)
         IN  reduceOvrs_LastBest(ratings, k + 1,
                 [ ovrs   |-> (pos2 :> o) @@ acc.ovrs,
                   found  |-> acc.found \/ better,
                   pos    |-> IF better THEN pos2 ELSE acc.pos,
                   maxOvr |-> IF better THEN o ELSE acc.maxOvr ])

\* lines 255-268: POSITIONS.reduce from index k on; acc holds ovrs and the locals
\* pos and maxOvr (found = FALSE while maxOvr is -Infinity)
RECURSIVE reduceOvrs(_, _, _)
reduceOvrs(ratings, k, acc) ==
    IF k > Len(POSITIONS) THEN acc
    ELSE LET pos2 == POSITIONS[k]
             o == Ovr(ratings, pos2)
             better == pos2 \notin bannedPositions /\ (~acc.found \/ o > acc.maxOvr)
         IN  reduceOvrs(ratings, k + 1,
                 [ ovrs   |-> (pos2 :> o) @@ acc.ovrs,
                   found  |-> acc.found \/ better,
                   pos    |-> IF better THEN pos2 ELSE acc.pos,
                   maxOvr |-> IF better THEN o ELSE acc.maxOvr ])

computeOvrs(ratings) ==
    reduceOvrs(ratings, 1, [ovrs |-> EmptyMap, found |-> FALSE, pos |-> NoPos, maxOvr |-> 0])

\* lines 271-277: the calls of bootstrapPot in the order of POSITIONS, jit[k] being
\* the draw of the k-th call. The only build with several positions is football,
\* where potEstimator is defined and no trial is run.
potCalls(ratings, age, jit) ==
    [k \in 1..Len(POSITIONS) |-> bootstrapPot(ratings, age, POSITIONS[k], jit[k], EmptyBag)]

\* the first call of calls that throws, 0 if none does
firstThrow(calls) ==
    IF \E k \in DOMAIN calls : calls[k].kind = "throw"
    THEN MinOf({k \in DOMAIN calls : calls[k].kind = "throw"})
    ELSE 0

\* the calls made: all of them, or those up to the one that throws
made(calls) == IF firstThrow(calls) = 0 THEN DOMAIN calls ELSE 1..firstThrow(calls)

RECURSIVE Sum(_, _)
Sum(f, S) == IF S = {} THEN 0 ELSE LET x == CHOOSE y \in S : TRUE IN f[x] + Sum(f, S \ {x})

\* the position written to the snapshot: lines 248-253 and 287-292
resolvePos(pl, computed) == IF pl.pos # NoOverride THEN pl.pos ELSE computed

\* finish without the test of skipPot on line 300
finish_AlwaysPot(pl, ratings, years, newPlayer, skipPot) ==
    LET r == [ratings EXCEPT !.skills = skills(ratings)]
        draft == IF pl.tid = PLAYER.UNDRAFTED
                 THEN [ovr |-> r.ovr, pot |-> r.pot, skills |-> r.skills]
                 ELSE pl.draft
    IN  [pl EXCEPT !.ratings[Len(pl.ratings)] = r,
                   !.draft = draft,
                   !.born.year = IF newPlayer THEN @ - years ELSE @]

\* lines 295-309: skills, the draft record, the birth year
finish(pl, ratings, years, newPlayer, skipPot) ==
    LET r == [ratings EXCEPT !.skills = skills(ratings)]
        draft == IF pl.tid = PLAYER.UNDRAFTED
                 THEN [ ovr    |-> r.ovr,
                        pot    |-> IF ~skipPot THEN r.pot ELSE pl.draft.pot,
                        skills |-> r.skills ]
                 ELSE pl.draft
    IN  [pl EXCEPT !.ratings[Len(pl.ratings)] = r,
                   !.draft = draft,
                   !.born.year = IF newPlayer THEN @ - years ELSE @]

NoCall == [years |-> 0, newPlayer |-> FALSE, coachingRank |-> 0, skipPot |-> FALSE,
           age |-> 0, i |-> 0, pos |-> NoPos]
NoBoot == [age |-> 0, pos |-> NoPos, done |-> 0, maxOvrs |-> EmptyBag, ageTemp |-> 0,
           maxOvr |-> 0, seen |-> {}, ages |-> <<>>, ranks |-> {}]
NoRet  == [kind |-> "none", val |-> 0, msg |-> "none", draws |-> 0, estimates |-> 0, rollouts |-> 0]

\* develop(p, years, newPlayer, coachingRank, skipPot): lines 211-212
Develop(years, newPlayer, coachingRank, skipPot) ==
    /\ pc = "idle"
    /\ caller = "league"
    /\ pc' = "loop"
    /\ call' = [ years |-> years, newPlayer |-> newPlayer, coachingRank |-> coachingRank,
                 skipPot |-> skipPot,
                 age |-> Last(p.ratings).season - p.born.year, i |-> 0, pos |-> NoPos ]
    /\ obs' = [obs EXCEPT !.entry = p, !.age0 = Last(p.ratings).season - p.born.year]
    /\ UNCHANGED <<copiedRatings, SPORT, POSITIONS, caller, p, boot, ret, err>>

\* one iteration of the loop, lines 214-238
Season ==
    /\ pc = "loop"
    /\ call.i < call.years
    /\ LET age == nextAge(call.age, call.years, call.newPlayer)
           row == Len(p.ratings)
       IN  \E r \in developSeason(p.ratings[row]),
              newWeight \in (IF SPORT = "football" THEN genWeight ELSE {p.weight}) :
             /\ p' = [p EXCEPT !.ratings[row] = r,
                               !.weight = IF SPORT = "football"
                                          THEN clampWeight(p.weight, newWeight)
                                          ELSE @]
             /\ call' = [call EXCEPT !.age = age, !.i = @ + 1]
             /\ obs' = [obs EXCEPT !.log = Append(@, [age |-> age, rank |-> call.coachingRank,
                                                      row |-> row]),
                                   !.newWeight = newWeight,
                                   !.oldWeight = p.weight]
    /\ UNCHANGED <<copiedRatings, SPORT, POSITIONS, caller, pc, boot, ret, err>>

\* lines 241-253 and 295-309, the basketball build
FinishBasketball ==
    /\ pc = "loop"
    /\ ~(call.i < call.years)
    /\ SPORT = "basketball"
    /\ LET row == Len(p.ratings)
           r1 == [p.ratings[row] EXCEPT !.ovr = Ovr(p.ratings[row], NoPos)]
           simulated == ~call.skipPot /\ call.age < 29 /\ ~HasPotEstimator
       IN  \E maxOvrs \in (IF simulated THEN trialBags(r1, call.age, NoPos) ELSE {EmptyBag}) :
             LET res == bootstrapPot(r1, call.age, NoPos, 0, maxOvrs)
                 r2 == IF ~call.skipPot THEN [r1 EXCEPT !.pot = res.val] ELSE r1
                 r3 == [r2 EXCEPT !.pos = resolvePos(p, PosOf(r2))]
             IN  /\ p' = finish(p, r3, call.years, call.newPlayer, call.skipPot)
                 /\ obs' = IF ~call.skipPot
                           THEN [obs EXCEPT !.draws = res.draws, !.estimates = res.estimates,
                                            !.rollouts = res.rollouts, !.potAges = {call.age}]
                           ELSE obs
    /\ pc' = "done"
    /\ UNCHANGED <<copiedRatings, SPORT, POSITIONS, caller, call, boot, ret, err>>

\* lines 255-292 and 295-309, the builds with several positions
FinishPositions ==
    /\ pc = "loop"
    /\ ~(call.i < call.years)
    /\ SPORT # "basketball"
    /\ LET row == Len(p.ratings)
           red == computeOvrs(p.ratings[row])
           r1 == [p.ratings[row] EXCEPT !.ovrs = red.ovrs]
           drawn == ~call.skipPot /\ call.age < 29 /\ HasPotEstimator
       IN  \E jit \in [1..Len(POSITIONS) -> IF drawn THEN randInt(-2, 2) ELSE {0}] :
             LET calls == IF ~call.skipPot THEN potCalls(r1, call.age, jit) ELSE <<>>
                 thrown == firstThrow(calls)
                 r2 == IF ~call.skipPot /\ thrown = 0
                       THEN [r1 EXCEPT !.pots = [pos2 \in Range(POSITIONS) |->
                                 calls[CHOOSE k \in DOMAIN calls : POSITIONS[k] = pos2].val]]
                       ELSE r1
                 r3 == [r2 EXCEPT !.ovr = r2.ovrs[red.pos], !.pot = r2.pots[red.pos],
                                  !.pos = resolvePos(p, red.pos)]
             IN  /\ obs' = IF ~call.skipPot
                           THEN [obs EXCEPT
                                   !.draws = Sum([k \in made(calls) |-> calls[k].draws], made(calls)),
                                   !.estimates = Sum([k \in made(calls) |-> calls[k].estimates], made(calls)),
                                   !.potAges = IF made(calls) = {} THEN {} ELSE {call.age}]
                           ELSE obs
                 /\ call' = [call EXCEPT !.pos = red.pos]
                 /\ IF thrown # 0
                    THEN /\ p' = [p EXCEPT !.ratings[row] = r1]
                         /\ pc' = "error"
                         /\ err' = calls[thrown].msg
                    ELSE IF ~red.found
                    THEN /\ p' = [p EXCEPT !.ratings[row] = r2]
                         /\ pc' = "error"
                         /\ err' = "Should never happen"
                    ELSE /\ p' = finish(p, r3, call.years, call.newPlayer, call.skipPot)
                         /\ pc' = "done"
                         /\ err' = err
    /\ UNCHANGED <<copiedRatings, SPORT, POSITIONS, caller, boot, ret>>

----------------------------------------------------------------------------
(* The states before a call *)

Keys(sport, positions) == IF sport = "basketball" THEN {NoPos} ELSE Range(positions)

\* a snapshot as the previous pass left it: overall v at every position, potential
\* equal to it, but one point above it at the last position
Snapshot(sport, positions, season, v, override) ==
    LET attrs == [k \in Keys(sport, positions) |-> v]
        eligible == {k \in 1..Len(positions) : positions[k] \notin bannedPositions}
        best == IF sport = "basketball" THEN (IF v >= 50 THEN "F" ELSE "G")
                ELSE IF eligible = {} THEN NoPos ELSE positions[MinOf(eligible)]
    IN  [ season |-> season,
          attrs  |-> attrs,
          ovr    |-> v,
          pot    |-> v,
          ovrs   |-> IF sport = "basketball" THEN EmptyMap ELSE attrs,
          pots   |-> IF sport = "basketball" THEN EmptyMap
                     ELSE [k \in DOMAIN attrs |->
                             IF k = positions[Len(positions)] THEN bound(v + 1, 0, 100) ELSE v],
          pos    |-> IF override # NoOverride THEN override ELSE best,
          skills |-> {k \in DOMAIN attrs : v >= 50} ]

\* the draft record: it mirrors the snapshot of an undrafted player and is the
\* frozen record of draft day otherwise
DraftOf(tid, snapshot) ==
    IF tid = PLAYER.UNDRAFTED
    THEN [ovr |-> snapshot.ovr, pot |-> snapshot.pot, skills |-> snapshot.skills]
    ELSE [ovr |-> 40, pot |-> 45, skills |-> {"old"}]

InitObs == [entry |-> <<>>, age0 |-> 0, log |-> <<>>, newWeight |-> 0, oldWeight |-> 0,
            draws |-> 0, estimates |-> 0, rollouts |-> 0, potAges |-> {}]

InitLeague ==
    /\ caller = "league"
    /\ SPORT \in {"basketball", "football"}
    /\ POSITIONS \in (IF SPORT = "basketball" THEN {<<"G", "F", "C">>} ELSE PositionLists)
    /\ \E v \in OvrValues, a0 \in StartAges, tid \in {PLAYER.UNDRAFTED, 0},
          override \in {NoOverride, POSITIONS[Len(POSITIONS)]} :
         LET snapshot == Snapshot(SPORT, POSITIONS, StartSeason, v, override)
             before == [snapshot EXCEPT !.season = StartSeason - 1]
         IN  p = [ born    |-> [loc |-> "USA", year |-> StartSeason - a0],
                   draft   |-> DraftOf(tid, snapshot),
                   pos     |-> override,
                   ratings |-> <<before, snapshot>>,
                   tid     |-> tid,
                   weight  |-> StartWeight ]
    /\ copiedRatings = Last(p.ratings)
    /\ pc = "idle"
    /\ call = NoCall
    /\ boot = NoBoot
    /\ ret = NoRet
    /\ err = "none"
    /\ obs = InitObs

InitTool ==
    /\ caller = "tool"
    /\ SPORT \in {"basketball", "football"}
    /\ POSITIONS = (IF SPORT = "basketball" THEN <<"G", "F", "C">> ELSE FootballPositions)
    /\ \E v \in (IF SPORT = "football" THEN 0..100 ELSE OvrValues) :
         LET snapshot == Snapshot(SPORT, POSITIONS, StartSeason, v, NoOverride)
         IN  p = [ born    |-> [loc |-> "USA", year |-> StartSeason - 29],
                   draft   |-> DraftOf(0, snapshot),
                   pos     |-> NoOverride,
                   ratings |-> <<snapshot>>,
                   tid     |-> 0,
                   weight  |-> StartWeight ]
    /\ copiedRatings = Last(p.ratings)
    /\ pc = "idle"
    /\ call = NoCall
    /\ boot = NoBoot
    /\ ret = NoRet
    /\ err = "none"
    /\ obs = InitObs

----------------------------------------------------------------------------
(* bootstrapPot called directly, its trials step by step *)

\* bootstrapPot(ratings, age, pos) on the current snapshot: lines 139-157, or the
\* start of the trials
BootstrapPotCall(age, pos) ==
    /\ pc = "idle"
    /\ caller = "tool"
    /\ boot' = [NoBoot EXCEPT !.age = age, !.pos = pos]
    /\ LET ratings == Last(p.ratings)
       IN  IF age < 29 /\ ~HasPotEstimator
           THEN /\ pc' = "trials"
                /\ obs' = [obs EXCEPT !.entry = p, !.potAges = {age}]
                /\ UNCHANGED <<ret, err>>
           ELSE \E jitter \in randInt(-2, 2) :
                  LET res == bootstrapPot(ratings, age, pos, jitter, EmptyBag)
                  IN  /\ ret' = res
                      /\ pc' = IF res.kind = "throw" THEN "error" ELSE "returned"
                      /\ err' = res.msg
                      /\ obs' = [obs EXCEPT !.entry = p, !.potAges = {age},
                                            !.draws = res.draws, !.estimates = res.estimates]
    /\ UNCHANGED <<copiedRatings, SPORT, POSITIONS, caller, p, call>>

\* lines 160-161: a trial begins
TrialStart ==
    /\ pc = "trials"
    /\ boot.done < NUM_SIMULATIONS
    /\ copiedRatings' = deepCopy(Last(p.ratings))
    /\ boot' = [boot EXCEPT !.maxOvr = currentOvr(Last(p.ratings), boot.pos),
                            !.ageTemp = boot.age + 1, !.seen = {}, !.ages = <<>>,
                            !.ranks = {}]
    /\ pc' = "rollout"
    /\ UNCHANGED <<SPORT, POSITIONS, caller, p, call, ret, err, obs>>

\* lines 163-171: one year of the trial
RolloutStep ==
    /\ pc = "rollout"
    /\ boot.ageTemp < 30
    /\ \E c \in developSeason(copiedRatings) :
         LET currentOvr2 == Ovr(c, boot.pos)
         IN  /\ copiedRatings' = c
             /\ boot' = [boot EXCEPT !.maxOvr = IF currentOvr2 > @ THEN currentOvr2 ELSE @,
                                     !.ageTemp = @ + 1,
                                     !.seen = @ \cup {currentOvr2},
                                     !.ages = Append(@, boot.ageTemp),
                                     !.ranks = @ \cup {"undefined"}]
    /\ obs' = [obs EXCEPT !.rollouts = @ + 1]
    /\ UNCHANGED <<SPORT, POSITIONS, caller, p, pc, call, ret, err>>

\* line 173: the trial returns its maximum
TrialEnd ==
    /\ pc = "rollout"
    /\ ~(boot.ageTemp < 30)
    /\ boot' = [boot EXCEPT !.maxOvrs = @ (+) SetToBag({boot.maxOvr}), !.done = @ + 1]
    /\ pc' = "trials"
    /\ UNCHANGED <<copiedRatings, SPORT, POSITIONS, caller, p, call, ret, err, obs>>

\* line 175
BootstrapPotReturn ==
    /\ pc = "trials"
    /\ ~(boot.done < NUM_SIMULATIONS)
    /\ ret' = bootstrapPot(Last(p.ratings), boot.age, boot.pos, 0, boot.maxOvrs)
    /\ pc' = "returned"
    /\ UNCHANGED <<copiedRatings, SPORT, POSITIONS, caller, p, call, boot, err, obs>>

Init == InitLeague \/ InitTool

Next ==
    \/ \E years \in 0..MaxYears, newPlayer \in BOOLEAN, coachingRank \in CoachingRanks,
          skipPot \in BOOLEAN : Develop(years, newPlayer, coachingRank, skipPot)
    \/ Season
    \/ FinishBasketball
    \/ FinishPositions
    \/ \E age \in ToolAges(SPORT), pos \in ToolPositions(SPORT, POSITIONS) :
          BootstrapPotCall(age, pos)
    \/ TrialStart
    \/ RolloutStep
    \/ TrialEnd
    \/ BootstrapPotReturn

Spec == Init /\ [][Next]_vars

----------------------------------------------------------------------------
(* Properties *)

\* the current (last) snapshot, and the one develop or bootstrapPot was entered with
snapshot == Last(p.ratings)
entrySnapshot == Last(obs.entry.ratings)

Returned == caller = "league" /\ pc = "done"
Left == caller = "league" /\ pc \in {"done", "error"}
MultiPosition == SPORT # "basketball"

UnknownPositions == {pos \in Range(POSITIONS) : pos \notin DOMAIN coeffsByPos}
Eligible == {pos \in Range(POSITIONS) : pos \notin bannedPositions}
\* POSITIONS agrees with coeffsByPos and has a position that is not banned
WellConfigured == MultiPosition => (UnknownPositions = {} /\ Eligible # {})

PotNotBelowOvr ==
    /\ snapshot.pot >= snapshot.ovr
    /\ MultiPosition =>
         \A pos \in Range(POSITIONS) : snapshot.pots[pos] >= snapshot.ovrs[pos]

C2_RatingsInRange ==
    /\ caller = "league" =>
         /\ snapshot.ovr \in 0..100
         /\ snapshot.pot \in 0..100
         /\ \A pos \in DOMAIN snapshot.ovrs : snapshot.ovrs[pos] \in 0..100
         /\ \A pos \in DOMAIN snapshot.pots : snapshot.pots[pos] \in 0..100
    /\ (caller = "tool" /\ pc = "returned" /\ ret.kind = "value") => ret.val \in 0..100

\* the regression answered 100 for a player below 100: the sum was rounded and
\* clamped
C2_Witness ==
    /\ caller = "tool" /\ pc = "returned" /\ SPORT = "football" /\ boot.age < 29
    /\ ret.kind = "value" /\ ret.val = 100
    /\ snapshot.ovrs[boot.pos] < 90

\* C3: at age >= 29 the estimator returns the current overall exactly (that of
\* the position when one is given) without a draw, without the regression and
\* without a call of developSeason, in both builds.
C3_AtAgeLimitPotIsOvr ==
    /\ (Left /\ ~call.skipPot /\ call.age >= 29) =>
         /\ obs.draws = 0 /\ obs.estimates = 0 /\ obs.rollouts = 0
         /\ MultiPosition =>
              \A pos \in Range(POSITIONS) : snapshot.pots[pos] = snapshot.ovrs[pos]
         /\ pc = "done" => snapshot.pot = snapshot.ovr
    /\ (caller = "tool" /\ pc \in {"returned", "error", "trials", "rollout"} /\ boot.age >= 29) =>
         /\ pc = "returned"
         /\ obs.draws = 0 /\ obs.estimates = 0 /\ obs.rollouts = 0
         /\ ret.kind = "value" => ret.val = currentOvr(snapshot, boot.pos)
         /\ ret.kind = "value" \/ boot.pos \notin DOMAIN snapshot.ovrs

\* a football pass at exactly 29 whose overall had changed since the last estimate
C3_Witness ==
    /\ Returned /\ ~call.skipPot /\ SPORT = "football" /\ call.age = 29
    /\ snapshot.ovr # entrySnapshot.ovr

PotUnchanged == snapshot.pot = entrySnapshot.pot /\ snapshot.pots = entrySnapshot.pots

\* the calls in which the regression build was asked for the potential of a
\* position that is no key of coeffsByPos
AskedUnknown ==
    /\ HasPotEstimator
    /\ \/ Left /\ ~call.skipPot /\ UnknownPositions # {}
       \/ caller = "tool" /\ pc \in {"returned", "error"} /\ boot.pos # NoPos
            /\ boot.pos \notin DOMAIN coeffsByPos

AgeAsked == IF caller = "tool" THEN boot.age ELSE call.age

InvalidPositionRaised ==
    pc = "error" /\ err = "Invalid position in potEstimator" /\ PotUnchanged

\* C4 as stated: whenever potential is requested through the regression strategy
\* with a position that is no key of the coefficient table, at every age, a
\* configuration error is raised and the snapshot's pot and pots are unchanged.
C4_UnknownPositionAlwaysRaises == AskedUnknown => InvalidPositionRaised

\* C4 amended: the same at every age below 29; from 29 on bootstrapPot returns
\* before it looks the position up.
C4_UnknownPositionRaisesBelowLimit == (AskedUnknown /\ AgeAsked < 29) => InvalidPositionRaised

\* develop threw on the unknown position after it had written new overalls
C4_Witness ==
    /\ Left /\ AskedUnknown /\ call.age < 29 /\ pc = "error"
    /\ snapshot.ovrs # entrySnapshot.ovrs

\* C5: develop calls developSeason exactly years times on the last snapshot, each
\* time with coachingRank; the i-th call gets age a0 + i when newPlayer or
\* years > 1 and a0 when years = 1 and not newPlayer; the estimator is handed
\* the age of the last call (a0 when years = 0).
C5_SeasonCalls ==
    Left =>
      /\ Len(obs.log) = call.years
      /\ \A i \in 1..Len(obs.log) :
           /\ obs.log[i].row = Len(p.ratings)
           /\ obs.log[i].rank = call.coachingRank
           /\ obs.log[i].age = IF call.newPlayer \/ call.years > 1
                               THEN obs.age0 + i
                               ELSE obs.age0
      /\ obs.potAges \subseteq
           {IF call.years = 0 THEN obs.age0 ELSE obs.log[call.years].age}
      /\ ~call.skipPot => obs.potAges # {}

\* one season of an existing player: the age is not incremented, and the
\* estimator was asked at that age
C5_Witness ==
    /\ Returned /\ call.years = 1 /\ ~call.newPlayer /\ ~call.skipPot
    /\ obs.log[1].age = obs.age0 /\ obs.potAges = {obs.age0}

Abs(x) == IF x < 0 THEN -x ELSE x
Clamp(x, lo, hi) == MaxOf({lo, MinOf({x, hi})})

\* C6 as stated: in the football build the weight after a develop call differs
\* from the weight before it by at most 10, whatever years is, and with
\* years = 1 the change is exactly clamp(candidate - oldWeight, -10, +10).
C6_WeightChangePerCall ==
    (Returned /\ WellConfigured /\ SPORT = "football") =>
      /\ Abs(p.weight - obs.entry.weight) <= 10
      /\ call.years = 1 =>
           p.weight - obs.entry.weight = Clamp(obs.newWeight - obs.entry.weight, -10, 10)

\* C6 amended: the clamp is applied once per season of the call: each iteration
\* changes the weight by exactly clamp(candidate - weight, -10, +10), so the
\* weight after the call differs from the weight before it by at most
\* 10 * years, and with years = 1 the change is exactly
\* clamp(candidate - oldWeight, -10, +10).
C6_WeightChangePerSeason ==
    (caller = "league" /\ pc # "idle" /\ SPORT = "football") =>
      /\ call.i = 0 => p.weight = obs.entry.weight
      /\ call.i > 0 =>
           p.weight - obs.oldWeight = Clamp(obs.newWeight - obs.oldWeight, -10, 10)
      /\ call.i = 1 => obs.oldWeight = obs.entry.weight
      /\ Abs(p.weight - obs.entry.weight) <= 10 * call.i
      /\ Left => call.i = call.years

\* a candidate 15 above the weight moved it by exactly 10
C6_Witness ==
    /\ Returned /\ SPORT = "football" /\ call.years = 1
    /\ obs.newWeight = obs.entry.weight + 15
    /\ p.weight = obs.entry.weight + 10

\* C7: when develop returns, the draft record of an undrafted player has the
\* snapshot's overall and skills, and its potential unless skipPot (then the
\* potential is as before the call); the draft record of any other player is
\* as before the call.
C7_DraftRecord ==
    Returned =>
      IF p.tid = PLAYER.UNDRAFTED
      THEN /\ p.draft.ovr = snapshot.ovr
           /\ p.draft.skills = snapshot.skills
           /\ p.draft.pot = IF call.skipPot THEN obs.entry.draft.pot ELSE snapshot.pot
      ELSE p.draft = obs.entry.draft

\* an undrafted player developed with skipPot: the record took the new overall
\* and kept a potential that is no longer the snapshot's
C7_Witness ==
    /\ Returned /\ p.tid = PLAYER.UNDRAFTED /\ call.skipPot
    /\ p.draft.ovr # obs.entry.draft.ovr
    /\ p.draft.pot # snapshot.pot

CountBelow(B, v) == BagCardinality([x \in {y \in DOMAIN B : y < v} |-> B[x]])
CountUpTo(B, v) == BagCardinality([x \in {y \in DOMAIN B : y <= v} |-> B[x]])

\* C8: without a regression table and below 29, bootstrapPot returns the element
\* at index 15 (from 0) of the ascending order of exactly 20 trial maxima; each
\* trial starts from its own copy of the input snapshot, calls developSeason once
\* for each age from age + 1 to 29 without a coaching rank, and its maximum is
\* the largest of the current overall and the overalls seen after the calls; the
\* input snapshot is unchanged.
C8_BootstrapPercentile ==
    (caller = "tool" /\ ~HasPotEstimator /\ boot.age < 29 /\ pc # "idle") =>
      /\ p = obs.entry
      /\ pc = "rollout" =>
           /\ Len(boot.ages) = 0 => copiedRatings = snapshot
           /\ \A k \in 1..Len(boot.ages) : boot.ages[k] = boot.age + k
           /\ boot.ranks \subseteq {"undefined"}
           /\ boot.maxOvr = MaxOf({currentOvr(snapshot, boot.pos)} \cup boot.seen)
           /\ ~(boot.ageTemp < 30) => Len(boot.ages) = 29 - boot.age
      /\ BagCardinality(boot.maxOvrs) = boot.done
      /\ pc = "returned" =>
           /\ boot.done = 20
           /\ ret.kind = "value"
           /\ BagIn(ret.val, boot.maxOvrs)
           /\ CountBelow(boot.maxOvrs, ret.val) <= 15
           /\ CountUpTo(boot.maxOvrs, ret.val) >= 16
           /\ obs.rollouts = 20 * (29 - boot.age)

\* sixteen trials stayed at the current overall and four went above it: the
\* answer is not the largest maximum
C8_Witness ==
    /\ caller = "tool" /\ pc = "returned" /\ ~HasPotEstimator /\ boot.age = 27
    /\ CountUpTo(boot.maxOvrs, ret.val) = 16
    /\ BagCardinality(boot.maxOvrs) = 20

\* C9: with several positions, develop writes an overall for every position of
\* POSITIONS, banned ones included; the computed position is not banned and has
\* the largest overall of the positions that are not banned; when every position
\* is banned the call fails with "Should never happen".
C9_PrimaryPosition ==
    (Left /\ MultiPosition) =>
      /\ DOMAIN snapshot.ovrs = Range(POSITIONS)
      /\ \A pos \in Range(POSITIONS) : snapshot.ovrs[pos] = Ovr(snapshot, pos)
      /\ pc = "done" =>
           /\ call.pos \in Eligible
           /\ \A pos \in Eligible : snapshot.ovrs[pos] <= snapshot.ovrs[call.pos]
      /\ Eligible = {} => (pc = "error" /\ err = "Should never happen")

\* a banned position had the largest overall and was not chosen
C9_Witness ==
    /\ Returned /\ MultiPosition
    /\ \E pos \in Range(POSITIONS) : snapshot.ovrs[pos] > snapshot.ovrs[call.pos]

\* the first position of POSITIONS that has the largest overall of the eligible ones
FirstBest ==
    LET top == MaxOf({snapshot.ovrs[pos] : pos \in Eligible})
    IN  POSITIONS[MinOf({k \in 1..Len(POSITIONS) :
                           POSITIONS[k] \in Eligible /\ snapshot.ovrs[POSITIONS[k]] = top})]

\* C10: with several positions, after develop returns the snapshot's ovr and pot
\* are those of the first position of POSITIONS with the largest eligible
\* overall, with or without a position override; the snapshot's pos is the
\* override when there is one and that position otherwise.
C10_HeadlineOfBestPosition ==
    (Returned /\ MultiPosition) =>
      /\ call.pos = FirstBest
      /\ snapshot.ovr = snapshot.ovrs[FirstBest]
      /\ snapshot.pot = snapshot.pots[FirstBest]
      /\ snapshot.pos = IF p.pos # NoOverride THEN p.pos ELSE FirstBest

\* an override that is not the best position: the headline overall is not the
\* overall of the snapshot's pos
C10_Witness ==
    /\ Returned /\ MultiPosition /\ p.pos # NoOverride
    /\ snapshot.pos = p.pos
    /\ snapshot.ovr # snapshot.ovrs[snapshot.pos]

====
